---- MODULE Spec2Model ----
(***************************************************************************)
(* Traffic pattern prediction engine (predictive_simulation).              *)
(*                                                                         *)
(* Tables (traffic, tmc_locations) and the matched DataFrame are SQL       *)
(* multisets and are modelled as bags of records; the predictions          *)
(* DataFrame is ordered (ORDER BY) and is a sequence of records.           *)
(*                                                                         *)
(* Numbers are exact fixed-point integers: speeds in 1/100 mph (the unit   *)
(* of ROUND(x, 2)), confidences in 1/1000 (the unit of ROUND(x, 3)).       *)
(* Stored confidences of the model are even, so that confidence * 0.5 is   *)
(* exact, as it is for IEEE doubles.  A timestamp is the number of hours   *)
(* since Monday 2025-09-29 00:00.  A nullable SQL value is a record        *)
(* [isnull, v].                                                            *)
(***************************************************************************)
EXTENDS Integers, Sequences, FiniteSets, Bags, TLC

VARIABLES
    traffic,        \* table traffic: bag of observation rows
    tmc_locations,  \* table tmc_locations: bag of geometry rows
    pc,             \* position of the request: idle, matched, predicted, exported,
                    \* failed, raised
    scenario,       \* (day_of_week, hour, day_type) of the request in progress
    historical,     \* DataFrame returned by match_historical_data (bag of rows)
    predictions,    \* DataFrame returned by calculate_predictions [columns, rows]
    registered,     \* names registered on the connection
    con_ops,        \* connection calls made by the last calculate_predictions
    exported,       \* value returned by export_predictions
    err,            \* exception raised by the request, or NoError
    readings_files, \* the observation files given to create_traffic_table
    tmc_files,      \* the geometry files given to create_tmc_locations_table
    file_i,         \* loop index of the ingestion loop in progress
    log,            \* what ingestion printed: one report per file and per table
    indexes,        \* the indexes of the store
    inserted,       \* history: the rows each log entry's step added to its table
    sessions,       \* the dashboard sessions sharing the cached connection
    temp_historical, \* the DataFrame registered on the shared connection
    db_exists,      \* whether the file at DB_PATH exists
    open_connections \* connections opened by /api/predict and not closed

\* The variables of ingestion (convert_to_duckdb.py)
ingest_vars == <<readings_files, tmc_files, file_i, log, indexes, inserted>>

\* The variables of the dashboard sessions (streamlit_app.py)
session_vars == <<sessions, temp_historical>>

\* The variables of the HTTP service (api.py)
api_vars == <<db_exists, open_connections>>

vars == <<traffic, tmc_locations, pc, scenario, historical, predictions,
          registered, con_ops, exported, err, ingest_vars, session_vars, api_vars>>

----------------------------------------------------------------------------
(* Bounds of the model *)

MaxRows == 2

Tmcs == {"A", "B"}
\* Mon 10:00, Thu 10:00, Thu 17:00, Fri 10:00
Timestamps == {10, 82, 89, 106}
\* (speed, reference_speed, confidence) of a reading: speeds in 1/100 mph,
\* confidence in 1/1000 and even; a negative, a zero and two positive weights
Readings == {<<1000, 4500, 0 - 2>>, <<1000, 4500, 2>>,
             <<2000, 5500, 4>>, <<2000, 5500, 0>>}
Hours == {10, 17}
DaysOfWeek == 0..6
DayTypes == {"normal", "holiday", "special_event"}
Formats == {"dataframe", "csv", "geojson", "xml"}

----------------------------------------------------------------------------
(* Generic helpers: nullable values, sums, bags, rounding *)

Null == [isnull |-> TRUE, v |-> 0]
Val(x) == [isnull |-> FALSE, v |-> x]

SumSet(S, f) ==
    LET RECURSIVE go(_)
        go(T) == IF T = {} THEN 0
                 ELSE LET x == CHOOSE y \in T : TRUE
                      IN  f[x] + go(T \ {x})
    IN  go(S)

\* SUM(expr) over the rows of a bag; f maps each row to the value of expr
BagSum(B, f) == SumSet(DOMAIN B, [r \in DOMAIN B |-> B[r] * f[r]])

\* SELECT * FROM B WHERE ...; keep is the set of rows satisfying the condition
Where(B, keep) == [r \in (DOMAIN B) \cap keep |-> B[r]]

\* SELECT <columns> FROM B; f maps each row to its selected columns
Select(B, f) ==
    [y \in {f[x] : x \in DOMAIN B} |-> SumSet({x \in DOMAIN B : f[x] = y}, B)]

Abs(x) == IF x < 0 THEN 0 - x ELSE x
Sign(x) == IF x < 0 THEN 0 - 1 ELSE IF x > 0 THEN 1 ELSE 0

\* ROUND(p / q) to an integer of the fixed-point unit, half away from zero
RoundDiv(p, q) == Sign(p) * Sign(q) * ((2 * Abs(p) + Abs(q)) \div (2 * Abs(q)))

----------------------------------------------------------------------------
(* convert_to_duckdb.py: the rows create_traffic_table inserts *)

\* EXTRACT(HOUR FROM ts)
ExtractHour(ts) == ts % 24

\* EXTRACT(DOW FROM ts): DuckDB numbers Sunday = 0 ... Saturday = 6; day 0 of
\* the timestamp epoch is a Monday
ExtractDOW(ts) == ((ts \div 24) + 1) % 7

\* CAST(ts AS DATE), as a day number
CastDate(ts) == ts \div 24

\* One row of the INSERT INTO traffic SELECT ... of create_traffic_table
TrafficRow(tmc, ts, speed, ref, conf, zipcode) ==
    [tmc_code            |-> tmc,
     measurement_tstamp  |-> ts,
     speed               |-> speed,
     reference_speed     |-> ref,
     travel_time_seconds |-> 60,
     confidence          |-> conf,
     hour                |-> ExtractHour(ts),
     day_of_week         |-> ExtractDOW(ts),
     date                |-> CastDate(ts),
     zipcode             |-> zipcode]

\* Rows a traffic table of the model may hold
RowUniverse ==
    {TrafficRow(t, ts, rd[1], rd[2], rd[3], <<"3", "0", "0", "6", "0">>) :
        t \in Tmcs, ts \in Timestamps, rd \in Readings}

\* One row of tmc_locations (the columns the engine and the load report read)
LocationRow(tmc, road, direction, zip, slat, slon, elat, elon) ==
    [tmc             |-> tmc,
     road            |-> road,
     direction       |-> direction,
     zip             |-> zip,
     start_latitude  |-> slat,
     start_longitude |-> slon,
     end_latitude    |-> elat,
     end_longitude   |-> elon]

----------------------------------------------------------------------------
(* prediction_engine.py: match_historical_data *)

\* The seven columns every branch selects, confidence as stored
Columns7(r) ==
    [tmc_code           |-> r.tmc_code,
     measurement_tstamp |-> r.measurement_tstamp,
     speed              |-> r.speed,
     reference_speed    |-> r.reference_speed,
     confidence         |-> r.confidence,
     hour               |-> r.hour,
     day_of_week        |-> r.day_of_week]

\* (mutation of Half: the confidence is not scaled)
HalfUnscaled(c) == c

\* confidence * 0.5 (exact: stored confidences are even)
Half(c) == (c * 5) \div 10

\* The same seven columns with "confidence * 0.5 as confidence"
Columns7Half(r) == [Columns7(r) EXCEPT !.confidence = Half(r.confidence)]

\* (mutation of NormalWhere: the hour condition is dropped)
NormalWhereAnyHour(r, day_of_week, hour) ==
    r.day_of_week = day_of_week

\* WHERE day_of_week = ? AND hour = ?
NormalWhere(r, day_of_week, hour) ==
    r.day_of_week = day_of_week /\ r.hour = hour

\* (mutation of HolidayWhere: Friday counts at every hour)
HolidayWhereAllFriday(r, hour) ==
    /\ r.day_of_week \in {4, 5, 6}
    /\ r.hour = hour

\* WHERE ((day_of_week = 4 AND hour >= 17) OR day_of_week IN (5, 6)) AND hour = ?
HolidayWhere(r, hour) ==
    /\ \/ (r.day_of_week = 4 /\ r.hour >= 17)
       \/ r.day_of_week \in {5, 6}
    /\ r.hour = hour

\* The rows of tbl a WHERE clause keeps, and the two SELECT lists
NormalRows(tbl, day_of_week, hour) ==
    {r \in DOMAIN tbl : NormalWhere(r, day_of_week, hour)}

HolidayRows(tbl, hour) == {r \in DOMAIN tbl : HolidayWhere(r, hour)}

AsStored(tbl) == [r \in DOMAIN tbl |-> Columns7(r)]

Halved(tbl) == [r \in DOMAIN tbl |-> Columns7Half(r)]

\* (mutation of match_historical_data: the holiday branch also filters on the
\* requested day_of_week)
match_historical_data_holiday_by_day(day_of_week, hour, day_type, tbl) ==
    IF day_type = "normal" THEN
        Select(Where(tbl, NormalRows(tbl, day_of_week, hour)), AsStored(tbl))
    ELSE IF day_type = "holiday" THEN
        Select(Where(tbl, {r \in HolidayRows(tbl, hour) :
                              r.day_of_week = day_of_week}), AsStored(tbl))
    ELSE
        Select(Where(tbl, NormalRows(tbl, day_of_week, hour)), Halved(tbl))
        (+) Select(Where(tbl, HolidayRows(tbl, hour)), Halved(tbl))

\* (mutation of match_historical_data: normal_data keeps the stored
\* confidence, only holiday_data is scaled)
match_historical_data_half_holiday_only(day_of_week, hour, day_type, tbl) ==
    IF day_type = "normal" THEN
        Select(Where(tbl, NormalRows(tbl, day_of_week, hour)), AsStored(tbl))
    ELSE IF day_type = "holiday" THEN
        Select(Where(tbl, HolidayRows(tbl, hour)), AsStored(tbl))
    ELSE
        Select(Where(tbl, NormalRows(tbl, day_of_week, hour)), AsStored(tbl))
        (+) Select(Where(tbl, HolidayRows(tbl, hour)), Halved(tbl))

\* (mutation of match_historical_data: UNION instead of UNION ALL)
match_historical_data_union(day_of_week, hour, day_type, tbl) ==
    IF day_type = "normal" THEN
        Select(Where(tbl, NormalRows(tbl, day_of_week, hour)), AsStored(tbl))
    ELSE IF day_type = "holiday" THEN
        Select(Where(tbl, HolidayRows(tbl, hour)), AsStored(tbl))
    ELSE
        SetToBag(DOMAIN Select(Where(tbl, NormalRows(tbl, day_of_week, hour)),
                               Halved(tbl))
                 \cup
                 DOMAIN Select(Where(tbl, HolidayRows(tbl, hour)), Halved(tbl)))

match_historical_data(day_of_week, hour, day_type, tbl) ==
    IF day_type = "normal" THEN
        Select(Where(tbl, NormalRows(tbl, day_of_week, hour)), AsStored(tbl))
    ELSE IF day_type = "holiday" THEN
        Select(Where(tbl, HolidayRows(tbl, hour)), AsStored(tbl))
    ELSE  \* special_event
        LET normal_data ==
                Select(Where(tbl, NormalRows(tbl, day_of_week, hour)), Halved(tbl))
            holiday_data ==
                Select(Where(tbl, HolidayRows(tbl, hour)), Halved(tbl))
        IN  normal_data (+) holiday_data   \* UNION ALL

----------------------------------------------------------------------------
(* prediction_engine.py: calculate_predictions *)

\* The schema of the DataFrame of predictions
PredictionColumns ==
    <<"tmc_code", "road", "direction", "predicted_speed", "reference_speed",
      "confidence_mean", "confidence_std", "sample_size",
      "start_latitude", "start_longitude", "end_latitude", "end_longitude">>

\* pd.DataFrame(columns=[...]) of the empty-input path
EmptyPredictions == [columns |-> PredictionColumns, rows |-> <<>>]

\* The rows of one GROUP BY tmc_code group
Group(hist, tmc) == Where(hist, {r \in DOMAIN hist : r.tmc_code = tmc})

\* (mutation of Count: COUNT(DISTINCT ...) over the selected columns)
CountDistinct(G) == Cardinality(DOMAIN G)

\* COUNT(*)
Count(G) == BagCardinality(G)

\* (mutation of WeightedMean: NULLIF is missing, a zero sum is not NULL)
WeightedMeanNoNullIf(G) ==
    LET den == BagSum(G, [r \in DOMAIN G |-> r.confidence])
        num == BagSum(G, [r \in DOMAIN G |-> r.speed * r.confidence])
    IN  [isnull |-> FALSE, num |-> num, den |-> IF den = 0 THEN 1 ELSE den]

\* SUM(speed * confidence) / NULLIF(SUM(confidence), 0), unrounded: a fraction
\* num / den, NULL when the confidences sum to 0
WeightedMean(G) ==
    LET den == BagSum(G, [r \in DOMAIN G |-> r.confidence])
        num == BagSum(G, [r \in DOMAIN G |-> r.speed * r.confidence])
    IN  IF den = 0 THEN [isnull |-> TRUE, num |-> 0, den |-> 1]
        ELSE [isnull |-> FALSE, num |-> num, den |-> den]

\* ROUND(sqrt(n / d)) for n >= 0, d > 0: the largest r with r = 0 or
\* (r - 1/2)^2 <= n / d
RoundSqrt(n, d, hi) ==
    CHOOSE r \in 0..hi :
        /\ (r = 0 \/ (2 * r - 1) * (2 * r - 1) * d <= 4 * n)
        /\ (2 * r + 1) * (2 * r + 1) * d > 4 * n

\* STDDEV(confidence): the sample standard deviation, NULL for fewer than two
\* rows; rounded to the confidence unit
StdDev(G) ==
    LET n  == Count(G)
        s1 == BagSum(G, [r \in DOMAIN G |-> r.confidence])
        s2 == BagSum(G, [r \in DOMAIN G |-> r.confidence * r.confidence])
    IN  IF n < 2 THEN Null
        ELSE Val(RoundSqrt(n * s2 - s1 * s1, n * (n - 1), s2 + 1))

\* The largest finite DOUBLE, in the units of the model: every sum and product
\* the query forms over the rows of the model stays within it, except the sum
\* of squared deviations of confidences that are far apart
DoubleMax == 100000000

\* STDDEV(confidence) raises "STDDEV_SAMP is out of range!": the sum of the
\* squared deviations from the mean, (n * s2 - s1^2) / n, is not finite
StdDevOutOfRange(G) ==
    LET n  == Count(G)
        s1 == BagSum(G, [r \in DOMAIN G |-> r.confidence])
        s2 == BagSum(G, [r \in DOMAIN G |-> r.confidence * r.confidence])
    IN  n >= 2 /\ n * s2 - s1 * s1 > DoubleMax * n

\* (mutation of Coalesce0: COALESCE is missing)
NoCoalesce(x) == x

\* COALESCE(x, 0)
Coalesce0(x) == IF x.isnull THEN Val(0) ELSE x

\* One row of the CTE "aggregated", with the rounding of the outer SELECT
\* applied; key is the unrounded a.predicted_speed the ORDER BY uses
Aggregated(hist, tmc) ==
    LET G  == Group(hist, tmc)
        wm == WeightedMean(G)
    IN  [tmc_code        |-> tmc,
         key             |-> wm,
         predicted_speed |-> IF wm.isnull THEN Null
                             ELSE Val(RoundDiv(wm.num, wm.den)),
         reference_speed |-> Val(RoundDiv(BagSum(G, [r \in DOMAIN G |-> r.reference_speed]),
                                          Count(G))),
         confidence_mean |-> Val(RoundDiv(BagSum(G, [r \in DOMAIN G |-> r.confidence]),
                                          Count(G))),
         confidence_std  |-> Coalesce0(StdDev(G)),
         sample_size     |-> Count(G)]

\* (mutation of HasGeometry: only the start coordinates are required)
HasGeometryStartOnly(l) ==
    /\ ~l.start_latitude.isnull
    /\ ~l.start_longitude.isnull

\* WHERE l.start_latitude IS NOT NULL AND ... AND l.end_longitude IS NOT NULL
HasGeometry(l) ==
    /\ ~l.start_latitude.isnull
    /\ ~l.start_longitude.isnull
    /\ ~l.end_latitude.isnull
    /\ ~l.end_longitude.isnull

\* One row of the outer SELECT: aggregated a joined with location row l
Joined(a, l) ==
    [key |-> a.key,
     row |-> [tmc_code        |-> a.tmc_code,
              road            |-> l.road,
              direction       |-> l.direction,
              predicted_speed |-> a.predicted_speed,
              reference_speed |-> a.reference_speed,
              confidence_mean |-> a.confidence_mean,
              confidence_std  |-> a.confidence_std,
              sample_size     |-> a.sample_size,
              start_latitude  |-> l.start_latitude,
              start_longitude |-> l.start_longitude,
              end_latitude    |-> l.end_latitude,
              end_longitude   |-> l.end_longitude]]

\* FROM aggregated a LEFT JOIN tmc_locations l ON a.tmc_code = l.tmc WHERE ...:
\* the bag of joined rows (a row without a match has NULL coordinates and is
\* dropped by the WHERE)
JoinedRows(hist, locs) ==
    LET tmcs  == {r.tmc_code : r \in DOMAIN hist}
        pairs == {<<t, l>> \in tmcs \X DOMAIN locs : l.tmc = t /\ HasGeometry(l)}
        J(p)  == Joined(Aggregated(hist, p[1]), p[2])
    IN  [j \in {J(p) : p \in pairs} |->
            SumSet({p \in pairs : J(p) = j}, [p \in pairs |-> locs[p[2]]])]

\* (mutation of KeyLeq: ORDER BY ... DESC)
KeyLeqDesc(x, y) ==
    IF x.isnull THEN TRUE
    ELSE IF y.isnull THEN FALSE
    ELSE LET s == Sign(x.den) * Sign(y.den)
         IN  y.num * x.den * s <= x.num * y.den * s

\* a.predicted_speed of x sorts no later than that of y (ASC, NULLs last)
KeyLeq(x, y) ==
    IF y.isnull THEN TRUE
    ELSE IF x.isnull THEN FALSE
    ELSE LET s == Sign(x.den) * Sign(y.den)
         IN  x.num * y.den * s <= y.num * x.den * s

\* ORDER BY a.predicted_speed ASC: every arrangement of the joined rows that is
\* sorted by the key (the order among equal keys is not determined)
OrderBy(J) ==
    LET n == BagCardinality(J)
    IN  {s \in [1..n -> DOMAIN J] :
            /\ \A j \in DOMAIN J : Cardinality({i \in 1..n : s[i] = j}) = J[j]
            /\ \A i \in 1..n : \A k \in 1..n : i < k => KeyLeq(s[i].key, s[k].key)}

\* The result sets the aggregation query may return
QueryResults(hist, locs) ==
    {[i \in 1..Len(s) |-> s[i].row] : s \in OrderBy(JoinedRows(hist, locs))}

\* con.execute(query) raises: the aggregate of some group is out of range (the
\* CTE aggregates every segment of the input, with or without geometry)
QueryRaises(hist) ==
    \E tmc \in {r.tmc_code : r \in DOMAIN hist} :
        StdDevOutOfRange(Group(hist, tmc))

\* (mutation of calculate_predictions_empty: the empty-input guard is missing)
calculate_predictions_no_guard(hist) == FALSE

\* if historical_data.empty
calculate_predictions_empty(hist) == hist = EmptyBag

----------------------------------------------------------------------------
(* prediction_engine.py: export_predictions *)

\* (mutation of Feature: latitude before longitude)
FeatureLatLon(row) ==
    [type       |-> "Feature",
     geometry   |-> [type        |-> "LineString",
                     coordinates |-> << <<row.start_latitude, row.start_longitude>>,
                                        <<row.end_latitude, row.end_longitude>> >>],
     properties |-> [tmc_code        |-> row.tmc_code,
                     road            |-> row.road,
                     direction       |-> row.direction,
                     predicted_speed |-> row.predicted_speed,
                     reference_speed |-> row.reference_speed,
                     confidence_mean |-> row.confidence_mean,
                     confidence_std  |-> row.confidence_std,
                     sample_size     |-> row.sample_size]]

\* One Feature of the geojson export
Feature(row) ==
    [type       |-> "Feature",
     geometry   |-> [type        |-> "LineString",
                     coordinates |-> << <<row.start_longitude, row.start_latitude>>,
                                        <<row.end_longitude, row.end_latitude>> >>],
     properties |-> [tmc_code        |-> row.tmc_code,
                     road            |-> row.road,
                     direction       |-> row.direction,
                     predicted_speed |-> row.predicted_speed,
                     reference_speed |-> row.reference_speed,
                     confidence_mean |-> row.confidence_mean,
                     confidence_std  |-> row.confidence_std,
                     sample_size     |-> row.sample_size]]

\* predictions.to_csv(index=False): the header line, then one line per row
ToCsv(df) ==
    [header |-> df.columns,
     lines  |-> [i \in 1..Len(df.rows) |->
                    <<df.rows[i].tmc_code, df.rows[i].road, df.rows[i].direction,
                      df.rows[i].predicted_speed, df.rows[i].reference_speed,
                      df.rows[i].confidence_mean, df.rows[i].confidence_std,
                      df.rows[i].sample_size,
                      df.rows[i].start_latitude, df.rows[i].start_longitude,
                      df.rows[i].end_latitude, df.rows[i].end_longitude>>]]

\* (mutation of ToGeoJson: the features are collected in reverse)
ToGeoJsonReversed(df) ==
    [type     |-> "FeatureCollection",
     features |-> [i \in 1..Len(df.rows) |-> Feature(df.rows[Len(df.rows) + 1 - i])]]

\* The geojson branch: one feature per row of predictions.iterrows()
ToGeoJson(df) ==
    [type     |-> "FeatureCollection",
     features |-> [i \in 1..Len(df.rows) |-> Feature(df.rows[i])]]

SupportedFormats == {"dataframe", "csv", "geojson"}

\* The value export_predictions returns for a supported format
export_predictions(df, format) ==
    IF format = "dataframe" THEN [kind |-> "dataframe", value |-> df]
    ELSE IF format = "csv" THEN [kind |-> "csv", value |-> ToCsv(df)]
    ELSE [kind |-> "geojson", value |-> ToGeoJson(df)]

\* (mutation of UnsupportedFormat: the message does not name the value)
UnsupportedFormatNoValue(format) ==
    [type |-> "ValueError", message |-> <<"Unsupported format">>]

\* raise ValueError(f"Unsupported format: {format}")
UnsupportedFormat(format) ==
    [type |-> "ValueError", message |-> <<"Unsupported format: ", format>>]

\* duckdb.OutOfRangeException raised by con.execute(query)
OutOfRange ==
    [type |-> "OutOfRangeException",
     message |-> <<"STDDEV_SAMP is out of range!">>]

NoError == [type |-> "none", message |-> <<>>]

NoExport == [kind |-> "none", value |-> <<>>]

----------------------------------------------------------------------------
(* The store and one request at a time against it *)

BagOfSeq(s) ==
    [x \in {s[i] : i \in DOMAIN s} |-> Cardinality({i \in DOMAIN s : s[i] = x})]

\* The traffic tables of the model: up to MaxRows rows
Stores ==
    {BagOfSeq(s) : s \in UNION {[1..n -> RowUniverse] : n \in 0..MaxRows}}

\* The tmc_locations tables of the model
Catalog ==
    SetToBag({LocationRow("A", "I-75", "NORTHBOUND", <<"3", "0", "0", "6", "0">>,
                          Val(3395), Val(0 - 8455), Val(3396), Val(0 - 8456)),
              LocationRow("B", "US-41", "SOUTHBOUND", <<"3", "0", "0", "6", "0">>,
                          Val(3390), Val(0 - 8450), Val(3391), Val(0 - 8451))})

NoScenario == [day_of_week |-> 0, hour |-> 0, day_type |-> "none"]

\* CREATE INDEX IF NOT EXISTS ... ON traffic(...)
TrafficIndexes ==
    {"idx_traffic_hour", "idx_traffic_dow", "idx_traffic_tmc", "idx_traffic_tstamp"}

\* CREATE INDEX IF NOT EXISTS idx_tmc_locations_tmc ON tmc_locations(tmc)
TmcIndexes == {"idx_tmc_locations_tmc"}

\* No dashboard session is running
NoSessions == <<>>

\* No temp_historical object on the connection
NotRegistered == [present |-> FALSE, data |-> EmptyBag]

Init ==
    /\ traffic \in Stores
    /\ tmc_locations = Catalog
    /\ pc = "idle"
    /\ scenario = NoScenario
    /\ historical = EmptyBag
    /\ predictions = EmptyPredictions
    /\ registered = {}
    /\ con_ops = <<>>
    /\ exported = NoExport
    /\ err = NoError
    /\ readings_files = <<>>
    /\ tmc_files = <<>>
    /\ file_i = 0
    /\ log = <<>>
    /\ inserted = <<>>
    /\ indexes = TrafficIndexes \cup TmcIndexes
    /\ sessions = NoSessions
    /\ temp_historical = NotRegistered
    /\ db_exists = TRUE
    /\ open_connections = 0

\* historical = pe.match_historical_data(day_of_week, hour, day_type, con)
MatchHistoricalData(day_of_week, hour, day_type) ==
    /\ pc = "idle"
    /\ scenario' = [day_of_week |-> day_of_week, hour |-> hour,
                    day_type |-> day_type]
    /\ historical' = match_historical_data(day_of_week, hour, day_type, traffic)
    /\ pc' = "matched"
    /\ UNCHANGED <<traffic, tmc_locations, predictions, registered, con_ops,
                   exported, err, ingest_vars, session_vars, api_vars>>

\* predictions = pe.calculate_predictions(historical, con)
CalculatePredictions ==
    /\ pc = "matched"
    /\ IF calculate_predictions_empty(historical)
       THEN /\ predictions' = EmptyPredictions
            /\ con_ops' = <<>>
            /\ registered' = registered
            /\ err' = err
            /\ pc' = "predicted"
       ELSE IF QueryRaises(historical)
       THEN \* the exception leaves the function at con.execute(query):
            \* con.unregister is not reached
            /\ predictions' = predictions
            /\ con_ops' = <<"register", "execute">>
            /\ registered' = registered \cup {"temp_historical"}
            /\ err' = OutOfRange
            /\ pc' = "raised"
       ELSE /\ \E rows \in QueryResults(historical, tmc_locations) :
                  predictions' = [columns |-> PredictionColumns, rows |-> rows]
            /\ con_ops' = <<"register", "execute", "unregister">>
            /\ registered' = (registered \cup {"temp_historical"})
                                \ {"temp_historical"}
            /\ err' = err
            /\ pc' = "predicted"
    /\ UNCHANGED <<traffic, tmc_locations, scenario, historical, exported,
                   ingest_vars, session_vars, api_vars>>

\* pe.export_predictions(predictions, format=format)
ExportPredictions(format) ==
    /\ pc = "predicted"
    /\ IF format \in SupportedFormats
       THEN /\ exported' = export_predictions(predictions, format)
            /\ pc' = "exported"
            /\ err' = err
       ELSE /\ exported' = exported
            /\ pc' = "failed"
            /\ err' = UnsupportedFormat(format)
    /\ UNCHANGED <<traffic, tmc_locations, scenario, historical, predictions,
                   registered, con_ops, ingest_vars, session_vars, api_vars>>

\* The request ends; the next one starts from the same store
Finish ==
    /\ pc \in {"predicted", "exported", "failed", "raised"}
    /\ pc' = "idle"
    /\ scenario' = NoScenario
    /\ historical' = EmptyBag
    /\ predictions' = EmptyPredictions
    /\ con_ops' = <<>>
    /\ exported' = NoExport
    /\ err' = NoError
    /\ UNCHANGED <<traffic, tmc_locations, registered, ingest_vars,
                   session_vars, api_vars>>

Next ==
    \/ \E d \in DaysOfWeek, h \in Hours, t \in DayTypes : MatchHistoricalData(d, h, t)
    \/ CalculatePredictions
    \/ \E f \in Formats : ExportPredictions(f)
    \/ Finish

Spec == Init /\ [][Next]_vars

----------------------------------------------------------------------------
(* Properties of match_historical_data *)

InRequest == scenario.day_type \in DayTypes

\* x is the seven selected columns of stored row r, with confidence c
SameReading(x, r, c) ==
    /\ x.tmc_code = r.tmc_code
    /\ x.measurement_tstamp = r.measurement_tstamp
    /\ x.speed = r.speed
    /\ x.reference_speed = r.reference_speed
    /\ x.confidence = c
    /\ x.hour = r.hour
    /\ x.day_of_week = r.day_of_week

IsNormalRow(r) ==
    r.day_of_week = scenario.day_of_week /\ r.hour = scenario.hour

IsHolidayRow(r) ==
    /\ r.hour = scenario.hour
    /\ \/ r.day_of_week \in {5, 6}
       \/ (r.day_of_week = 4 /\ r.hour >= 17)

\* C1: for day_type normal the matched rows are exactly the stored rows with
\* day_of_week = d and hour = h, each as often as it is stored and no other
\* row, and each carries its stored confidence.
C1_NormalMatchesExactly ==
    scenario.day_type = "normal" =>
        /\ \A x \in DOMAIN historical :
              historical[x] =
                  SumSet({r \in DOMAIN traffic :
                              IsNormalRow(r) /\ SameReading(x, r, r.confidence)},
                         traffic)
        /\ \A r \in DOMAIN traffic :
              IsNormalRow(r) =>
                  \E x \in DOMAIN historical : SameReading(x, r, r.confidence)

\* A normal request that matched some stored rows and left others out
C1_Witness ==
    /\ scenario.day_type = "normal"
    /\ historical # EmptyBag
    /\ \E r \in DOMAIN traffic : ~IsNormalRow(r)

\* C2: for day_type holiday the matched rows are exactly the stored rows with
\* hour = h and (day_of_week in {5, 6}, or day_of_week = 4 and hour >= 17),
\* confidence as stored; for h < 17 no day_of_week = 4 row is returned, for
\* h >= 17 every day_of_week = 4 row at hour h is.
C2_HolidayMatchesExactly ==
    scenario.day_type = "holiday" =>
        /\ \A x \in DOMAIN historical :
              historical[x] =
                  SumSet({r \in DOMAIN traffic :
                              IsHolidayRow(r) /\ SameReading(x, r, r.confidence)},
                         traffic)
        /\ \A r \in DOMAIN traffic :
              IsHolidayRow(r) =>
                  \E x \in DOMAIN historical : SameReading(x, r, r.confidence)
        /\ scenario.hour < 17 =>
              \A x \in DOMAIN historical : x.day_of_week # 4
        /\ scenario.hour >= 17 =>
              \A r \in DOMAIN traffic :
                  (r.day_of_week = 4 /\ r.hour = scenario.hour) =>
                      \E x \in DOMAIN historical : SameReading(x, r, r.confidence)

\* A holiday request before 17h that skipped a stored day_of_week = 4 row of
\* that hour while returning a weekend row
C2_Witness ==
    /\ scenario.day_type = "holiday"
    /\ scenario.hour < 17
    /\ historical # EmptyBag
    /\ \E r \in DOMAIN traffic : r.day_of_week = 4 /\ r.hour = scenario.hour

\* C3: for day_type holiday the matched rows, and the predictions computed
\* from them, are the same for all seven values of the day_of_week argument.
C3_HolidayIgnoresDayOfWeek ==
    scenario.day_type = "holiday" =>
        \A d \in DaysOfWeek :
            LET other == match_historical_data(d, scenario.hour, "holiday", traffic)
            IN  /\ other = historical
                /\ pc = "predicted" =>
                      IF other = EmptyBag THEN predictions.rows = <<>>
                      ELSE predictions.rows \in QueryResults(other, tmc_locations)

\* A holiday request for a weekday that matched rows
C3_Witness ==
    /\ scenario.day_type = "holiday"
    /\ scenario.day_of_week \notin {4, 5, 6}
    /\ pc = "predicted"
    /\ historical # EmptyBag

\* C4: for day_type special_event the matched rows are the multiset union of
\* the normal subset for (d, h) and the holiday subset for h: a stored row in
\* both is returned twice; every returned confidence is 0.5 times the stored
\* one, speed and reference_speed are as stored.
C4_SpecialEventIsUnionAll ==
    scenario.day_type = "special_event" =>
        /\ \A x \in DOMAIN historical :
              historical[x] =
                  SumSet({r \in DOMAIN traffic : 2 * x.confidence = r.confidence
                              /\ SameReading(x, r, x.confidence)},
                         [r \in DOMAIN traffic |->
                             traffic[r] * ((IF IsNormalRow(r) THEN 1 ELSE 0)
                                           + (IF IsHolidayRow(r) THEN 1 ELSE 0))])
        /\ \A r \in DOMAIN traffic :
              (IsNormalRow(r) \/ IsHolidayRow(r)) =>
                  \E x \in DOMAIN historical :
                      2 * x.confidence = r.confidence /\ SameReading(x, r, x.confidence)

\* A special_event request that returned twice a row stored once
C4_Witness ==
    /\ scenario.day_type = "special_event"
    /\ \E r \in DOMAIN traffic :
          /\ traffic[r] = 1
          /\ r.confidence # 0
          /\ IsNormalRow(r) /\ IsHolidayRow(r)
          /\ \E x \in DOMAIN historical :
                historical[x] = 2 /\ SameReading(x, r, Half(r.confidence))

----------------------------------------------------------------------------
(* Properties of calculate_predictions *)

Predicted == pc \in {"predicted", "exported", "failed"}

PredictionRows == {predictions.rows[i] : i \in 1..Len(predictions.rows)}

\* The rows of the matched subset of segment tmc
RowsOf(tmc) == {x \in DOMAIN historical : x.tmc_code = tmc}

\* The number of matched rows of segment tmc
MatchedCount(tmc) == SumSet(RowsOf(tmc), historical)

\* Segment tmc has a row of tmc_locations with four coordinates
Resolvable(tmc) ==
    \E l \in DOMAIN tmc_locations :
        /\ l.tmc = tmc
        /\ ~l.start_latitude.isnull /\ ~l.start_longitude.isnull
        /\ ~l.end_latitude.isnull /\ ~l.end_longitude.isnull

\* The sample_size a request of the given day_type for (d, h) reports for
\* segment tmc, 0 when it reports no row for it
ReportedSampleSize(d, h, day_type, tmc) ==
    LET hist == match_historical_data(d, h, day_type, traffic)
        rows == IF calculate_predictions_empty(hist) THEN <<>>
                ELSE CHOOSE q \in QueryResults(hist, tmc_locations) : TRUE
        hits == {i \in 1..Len(rows) : rows[i].tmc_code = tmc}
    IN  IF hits = {} THEN 0 ELSE rows[CHOOSE i \in hits : TRUE].sample_size

\* C5: the sample_size of a special_event(d, h) prediction equals the
\* sample_size normal(d, h) reports for the segment plus the one holiday(h)
\* reports for it, a missing segment counting as 0.
C5_SpecialEventSampleSizeAdds ==
    (Predicted /\ scenario.day_type = "special_event") =>
        \A p \in PredictionRows :
            p.sample_size =
                ReportedSampleSize(scenario.day_of_week, scenario.hour,
                                   "normal", p.tmc_code)
                + ReportedSampleSize(scenario.day_of_week, scenario.hour,
                                     "holiday", p.tmc_code)

\* A special_event prediction whose segment both requests report
C5_Witness ==
    /\ Predicted /\ scenario.day_type = "special_event"
    /\ \E p \in PredictionRows :
          /\ ReportedSampleSize(scenario.day_of_week, scenario.hour,
                                "normal", p.tmc_code) > 0
          /\ ReportedSampleSize(scenario.day_of_week, scenario.hour,
                                "holiday", p.tmc_code) > 0

\* C6: the sample_size of every prediction row is the number of rows of the
\* matched subset whose tmc_code is the row's segment.
C6_SampleSizeIsGroupCount ==
    Predicted =>
        \A p \in PredictionRows : p.sample_size = MatchedCount(p.tmc_code)

\* A prediction over a group of several rows, next to rows of another segment
C6_Witness ==
    /\ Predicted
    /\ \E p \in PredictionRows :
          /\ p.sample_size >= 2
          /\ BagCardinality(historical) > p.sample_size

\* C7: the predicted_speed of every segment lies between the minimum and the
\* maximum speed of the segment's matched rows (a null predicted_speed, the
\* case of C8, aside).
C7_PredictedSpeedWithinGroup ==
    Predicted =>
        \A p \in PredictionRows :
            ~p.predicted_speed.isnull =>
                /\ \E x \in RowsOf(p.tmc_code) : x.speed <= p.predicted_speed.v
                /\ \E x \in RowsOf(p.tmc_code) : p.predicted_speed.v <= x.speed

\* C8: when the confidences of a segment's matched rows sum to 0, no error is
\* raised and the segment's prediction has a null predicted_speed and non-null
\* reference_speed, confidence_mean and confidence_std and its sample_size.
C8_ZeroWeightGivesNull ==
    Predicted =>
        \A tmc \in {x.tmc_code : x \in DOMAIN historical} :
            (SumSet(RowsOf(tmc), [x \in DOMAIN historical |-> historical[x] * x.confidence]) = 0
             /\ Resolvable(tmc)) =>
                /\ err = NoError \/ pc = "failed"
                /\ \E p \in PredictionRows : p.tmc_code = tmc
                /\ \A p \in PredictionRows :
                      p.tmc_code = tmc =>
                          /\ p.predicted_speed.isnull
                          /\ ~p.reference_speed.isnull
                          /\ ~p.confidence_mean.isnull
                          /\ ~p.confidence_std.isnull
                          /\ p.sample_size = MatchedCount(tmc)

\* A prediction with a null predicted_speed over non-zero confidences that
\* cancel
C8_Witness ==
    /\ Predicted
    /\ \E p \in PredictionRows :
          /\ p.predicted_speed.isnull
          /\ p.sample_size >= 2
          /\ \E x \in RowsOf(p.tmc_code) : x.confidence # 0
          /\ ~p.reference_speed.isnull

\* C9: confidence_std is exactly 0 (not null) for a prediction with
\* sample_size = 1, and for two or more rows it is the sample standard
\* deviation of the group's confidences, rounded to the reported precision.
C9_ConfidenceStd ==
    Predicted =>
        \A p \in PredictionRows :
            LET n  == MatchedCount(p.tmc_code)
                s1 == SumSet(RowsOf(p.tmc_code),
                             [x \in DOMAIN historical |-> historical[x] * x.confidence])
                s2 == SumSet(RowsOf(p.tmc_code),
                             [x \in DOMAIN historical |-> historical[x] * x.confidence * x.confidence])
                r  == p.confidence_std.v
            IN  /\ ~p.confidence_std.isnull
                /\ p.sample_size = 1 => r = 0
                /\ p.sample_size >= 2 =>
                      /\ r >= 0
                      /\ r = 0 \/ (2 * r - 1) * (2 * r - 1) * n * (n - 1)
                                      <= 4 * (n * s2 - s1 * s1)
                      /\ (2 * r + 1) * (2 * r + 1) * n * (n - 1)
                            > 4 * (n * s2 - s1 * s1)

\* A prediction over a single row of non-zero confidence
C9_Witness ==
    /\ Predicted
    /\ \E p \in PredictionRows :
          /\ p.sample_size = 1
          /\ p.confidence_std = Val(0)
          /\ p.confidence_mean.v # 0

\* No stored row matches the scenario of the request
NothingMatches ==
    /\ InRequest
    /\ \A r \in DOMAIN traffic :
          /\ scenario.day_type \in {"normal", "special_event"} => ~IsNormalRow(r)
          /\ scenario.day_type \in {"holiday", "special_event"} => ~IsHolidayRow(r)

\* C10: when no stored row matches, the matched subset is empty,
\* calculate_predictions returns an empty table with the twelve prediction
\* columns without registering or querying, the geojson export is a
\* FeatureCollection with zero features, and no error is raised.
C10_EmptyPipeline ==
    NothingMatches =>
        /\ historical = EmptyBag
        /\ err = NoError \/ pc = "failed"
        /\ Predicted =>
              /\ predictions.rows = <<>>
              /\ Len(predictions.columns) = 12
              /\ predictions.columns = PredictionColumns
              /\ con_ops = <<>>
              /\ registered = {}
        /\ (pc = "exported" /\ exported.kind = "geojson") =>
              exported.value = [type |-> "FeatureCollection", features |-> <<>>]

\* The geojson export of a request that matched nothing in a non-empty store
C10_Witness ==
    /\ NothingMatches
    /\ traffic # EmptyBag
    /\ pc = "exported"
    /\ exported.kind = "geojson"
    /\ exported.value.features = <<>>

----------------------------------------------------------------------------
(* Properties of the ordering and of export_predictions *)

\* C13: the rows of the predictions are ordered by predicted_speed ascending:
\* of two rows with non-null predicted_speed the earlier one reports a
\* (rounded) predicted_speed less than or equal to that of the later one.
C13_SortedBySpeed ==
    Predicted =>
        \A i \in 1..Len(predictions.rows) : \A k \in 1..Len(predictions.rows) :
            (i < k /\ ~predictions.rows[i].predicted_speed.isnull
                   /\ ~predictions.rows[k].predicted_speed.isnull) =>
                predictions.rows[i].predicted_speed.v
                    <= predictions.rows[k].predicted_speed.v

\* Predictions of two segments with different predicted speeds
C13_Witness ==
    /\ Predicted
    /\ Len(predictions.rows) = 2
    /\ ~predictions.rows[1].predicted_speed.isnull
    /\ ~predictions.rows[2].predicted_speed.isnull
    /\ predictions.rows[1].predicted_speed.v < predictions.rows[2].predicted_speed.v

GeoJsonExported == pc = "exported" /\ exported.kind = "geojson"

\* C14: the geojson export has one Feature per prediction row, in a LineString
\* of two coordinate pairs, [start_longitude, start_latitude] then
\* [end_longitude, end_latitude], with the row's tmc_code, road, direction,
\* predicted_speed, reference_speed, confidence_mean, confidence_std and
\* sample_size as properties.
C14_GeoJsonFeatures ==
    GeoJsonExported =>
        /\ exported.value.type = "FeatureCollection"
        /\ Len(exported.value.features) = Len(predictions.rows)
        /\ \A i \in 1..Len(predictions.rows) :
              LET f == exported.value.features[i]
                  r == predictions.rows[i]
              IN  /\ f.type = "Feature"
                  /\ f.geometry.type = "LineString"
                  /\ Len(f.geometry.coordinates) = 2
                  /\ f.geometry.coordinates[1] = <<r.start_longitude, r.start_latitude>>
                  /\ f.geometry.coordinates[2] = <<r.end_longitude, r.end_latitude>>
                  /\ f.properties.tmc_code = r.tmc_code
                  /\ f.properties.road = r.road
                  /\ f.properties.direction = r.direction
                  /\ f.properties.predicted_speed = r.predicted_speed
                  /\ f.properties.reference_speed = r.reference_speed
                  /\ f.properties.confidence_mean = r.confidence_mean
                  /\ f.properties.confidence_std = r.confidence_std
                  /\ f.properties.sample_size = r.sample_size

\* A geojson export with a feature whose start differs from its end and whose
\* longitudes differ from its latitudes
C14_Witness ==
    /\ GeoJsonExported
    /\ Len(exported.value.features) >= 1
    /\ LET c == exported.value.features[1].geometry.coordinates
       IN  c[1] # c[2] /\ c[1][1] # c[1][2]

\* C15: the features of the geojson export, read in sequence, give the same
\* segment identifiers and predicted speeds, in the same ascending order, as the
\* dataframe export of the same predictions; the dataframe export returns the
\* predictions unchanged.
C15_ExportPreservesOrder ==
    /\ GeoJsonExported =>
          LET table == export_predictions(predictions, "dataframe").value.rows
              feats == exported.value.features
          IN  /\ [i \in 1..Len(feats) |-> feats[i].properties.tmc_code]
                    = [i \in 1..Len(table) |-> table[i].tmc_code]
              /\ [i \in 1..Len(feats) |-> feats[i].properties.predicted_speed]
                    = [i \in 1..Len(table) |-> table[i].predicted_speed]
              /\ \A i \in 1..Len(feats) : \A k \in 1..Len(feats) :
                    (i < k /\ ~feats[i].properties.predicted_speed.isnull
                           /\ ~feats[k].properties.predicted_speed.isnull) =>
                        feats[i].properties.predicted_speed.v
                            <= feats[k].properties.predicted_speed.v
    /\ (pc = "exported" /\ exported.kind = "dataframe") =>
          exported.value = predictions

\* A geojson export of two segments with different predicted speeds
C15_Witness ==
    /\ GeoJsonExported
    /\ Len(exported.value.features) = 2
    /\ exported.value.features[1].properties.tmc_code
          # exported.value.features[2].properties.tmc_code
    /\ exported.value.features[1].properties.predicted_speed
          # exported.value.features[2].properties.predicted_speed

\* C16: export_predictions fails, with an error naming the requested value,
\* for exactly the formats outside {dataframe, csv, geojson}, whatever the
\* predictions; a failed call leaves the predictions as they were.
C16_UnsupportedFormatFails ==
    [][\A f \in Formats :
          ExportPredictions(f) =>
              /\ (f \notin {"dataframe", "csv", "geojson"}) <=> (pc' = "failed")
              /\ pc' = "failed" =>
                    /\ err'.type = "ValueError"
                    /\ err'.message = <<"Unsupported format: ", f>>
                    /\ predictions' = predictions
                    /\ exported' = NoExport
              /\ pc' # "failed" => (pc' = "exported" /\ err' = NoError)]_vars

\* A failed export of non-empty predictions
C16_Witness ==
    /\ pc = "failed"
    /\ err.type = "ValueError"
    /\ predictions.rows # <<>>

----------------------------------------------------------------------------
(* convert_to_duckdb.py: building the store from CSV files.                *)
(*                                                                         *)
(* A file name is a sequence of characters.  The text of a timestamp cell  *)
(* is [fmt, ts, dashes]: fmt "iso" is YYYY-MM-DD HH:MM:SS, "us" is         *)
(* M/D/YYYY H:MM, "bad" is a text neither format parses; ts is the instant *)
(* it denotes and dashes the number of '-' characters in it.               *)

MaxFiles == 3

Digits == {"0", "1", "2", "3", "4", "5", "6", "7", "8", "9"}

\* Python None
None == [isnull |-> TRUE, v |-> <<>>]

\* re.search(r'[-.](\d{5})', filename): the leftmost '-' or '.' followed by
\* five digits; group 1, or None
extract_zipcode(filename) ==
    LET starts == {i \in 1..Len(filename) :
                      /\ filename[i] \in {"-", "."}
                      /\ i + 5 <= Len(filename)
                      /\ \A k \in 1..5 : filename[i + k] \in Digits}
    IN  IF starts = {} THEN None
        ELSE LET m == CHOOSE i \in starts : \A j \in starts : i <= j
             IN  Val(SubSeq(filename, m + 1, m + 5))

\* '{zipcode}' inside the f-string of the INSERT
FormatZip(zipcode) ==
    IF zipcode.isnull THEN <<"N", "o", "n", "e">> ELSE zipcode.v

Iso(ts) == [fmt |-> "iso", ts |-> ts, dashes |-> 2]
Us(ts) == [fmt |-> "us", ts |-> ts, dashes |-> 0]
\* a text no format parses, such as 'n/a' (no dash) or '2025-13-45 99:00'
Unparsable(dashes) == [fmt |-> "bad", ts |-> 0, dashes |-> dashes]

\* A row of a readings file whose confidence column is named confidence
ReadingsRow(tmc, text, speed, ref, conf) ==
    [tmc_code |-> tmc, measurement_tstamp |-> text, speed |-> speed,
     reference_speed |-> ref, travel_time_seconds |-> 60, confidence |-> conf]

\* A row of a readings file whose confidence column is named confidence_score
ReadingsRowScore(tmc, text, speed, ref, conf) ==
    [tmc_code |-> tmc, measurement_tstamp |-> text, speed |-> speed,
     reference_speed |-> ref, travel_time_seconds |-> 60,
     confidence_score |-> conf]

\* confidence_col = 'confidence_score' if ... in column_names else 'confidence'
confidence_col(column_names) ==
    IF "confidence_score" \in column_names THEN "confidence_score"
    ELSE "confidence"

AllIso(rows) == \A i \in 1..Len(rows) : rows[i].measurement_tstamp.fmt = "iso"
NoIso(rows) == \A i \in 1..Len(rows) : rows[i].measurement_tstamp.fmt # "iso"

\* The peek: SELECT * FROM read_csv_auto(file, sample_size=1), fetched whole.
\* The reader types the timestamp column from its sample and raises on a later
\* cell that does not convert (no ignore_errors here); whether the sample stops
\* at the first row or reaches such a cell depends on the reader
PeekOutcomes(rows) ==
    IF AllIso(rows) THEN {[raises |-> FALSE, type |-> "TIMESTAMP"]}
    ELSE IF rows[1].measurement_tstamp.fmt = "iso"
         THEN {[raises |-> TRUE, type |-> "TIMESTAMP"],
               [raises |-> FALSE, type |-> "VARCHAR"]}
         ELSE {[raises |-> FALSE, type |-> "VARCHAR"]}

\* str(sample[0][1]): a TIMESTAMP cell prints as ISO text, a VARCHAR cell is
\* the text of the file
sample_timestamp(type, cell) == IF type = "TIMESTAMP" THEN Iso(cell.ts) ELSE cell

\* (mutation of timestamp_expr: every file is read as ISO)
timestamp_expr_always_cast(sample) == "CAST"

\* Detect date format: two or more '-' choose CAST(... AS TIMESTAMP), anything
\* else strptime(..., '%m/%d/%Y %H:%M')
timestamp_expr(sample) == IF sample.dashes >= 2 THEN "CAST" ELSE "strptime"

\* read_csv_auto(file, ignore_errors=true) of the INSERT: the timestamp column
\* is TIMESTAMP with the rows that do not convert left out, or VARCHAR
ReadOutcomes(rows) ==
    LET IsIso(r) == r.measurement_tstamp.fmt = "iso"
    IN  IF AllIso(rows) THEN {[type |-> "TIMESTAMP", rows |-> rows]}
        ELSE IF NoIso(rows) THEN {[type |-> "VARCHAR", rows |-> rows]}
        ELSE {[type |-> "TIMESTAMP", rows |-> SelectSeq(rows, IsIso)],
              [type |-> "VARCHAR", rows |-> rows]}

\* The value of timestamp_expr on one cell: the parsed instant, or the
\* conversion error the expression raises
EvalTimestamp(expr, type, cell) ==
    LET text == sample_timestamp(type, cell)
    IN  IF expr = "CAST"
        THEN IF type = "TIMESTAMP" \/ text.fmt = "iso"
             THEN [raises |-> FALSE, ts |-> text.ts]
             ELSE [raises |-> TRUE, ts |-> 0]
        ELSE IF text.fmt = "us"
             THEN [raises |-> FALSE, ts |-> text.ts]
             ELSE [raises |-> TRUE, ts |-> 0]

\* The rows INSERT INTO traffic SELECT ... FROM read_csv_auto(...) produces
InsertedRows(file, expr, read, zipcode) ==
    BagOfSeq([i \in 1..Len(read.rows) |->
                 TrafficRow(read.rows[i].tmc_code,
                            EvalTimestamp(expr, read.type,
                                          read.rows[i].measurement_tstamp).ts,
                            read.rows[i].speed,
                            read.rows[i].reference_speed,
                            read.rows[i][confidence_col(file.column_names)],
                            FormatZip(zipcode))])

\* The INSERT raises, and inserts nothing, when the expression fails on a row
InsertRaises(expr, read) ==
    \E i \in 1..Len(read.rows) :
        EvalTimestamp(expr, read.type, read.rows[i].measurement_tstamp).raises

\* SELECT COUNT(*) FROM traffic WHERE zipcode = ? with [zipcode]; comparing
\* with a NULL parameter selects no row
TrafficRowCount(tbl, zipcode) ==
    IF zipcode.isnull THEN 0
    ELSE BagCardinality(Where(tbl, {r \in DOMAIN tbl : r.zipcode = zipcode.v}))

Report(name, outcome, row_count) ==
    [file |-> name, outcome |-> outcome, row_count |-> row_count]

\* (mutation of OnError: the failed statement also loses the rows loaded before)
OnErrorLosesRows(file, tbl) ==
    [traffic |-> EmptyBag, report |-> Report(file.name, "error", 0)]

\* except Exception as e: print the error; the statement that raised changed
\* nothing, so the table is as it was before the file
OnError(file, tbl) ==
    [traffic |-> tbl, report |-> Report(file.name, "error", 0)]

\* One iteration of the loop of create_traffic_table on table tbl: the set of
\* possible results [traffic, report]
LoadReadings(file, tbl) ==
    LET zipcode == extract_zipcode(file.name)
        Error == OnError(file, tbl)
    IN  IF file.rows = <<>>
        THEN {[traffic |-> tbl, report |-> Report(file.name, "skipped", 0)]}
        ELSE UNION {
               IF peek.raises THEN {Error}
               ELSE LET expr == timestamp_expr(
                                   sample_timestamp(peek.type,
                                       file.rows[1].measurement_tstamp))
                    IN  {IF InsertRaises(expr, read) THEN Error
                         ELSE LET loaded == tbl (+) InsertedRows(file, expr, read,
                                                                 zipcode)
                              IN  [traffic |-> loaded,
                                   report  |-> Report(file.name, "loaded",
                                                  TrafficRowCount(loaded, zipcode))] :
                         read \in ReadOutcomes(file.rows)} :
               peek \in PeekOutcomes(file.rows)}

\* SELECT COUNT(*) FROM tmc_locations WHERE zip = ? with [zipcode]
TmcRowCount(tbl, zipcode) ==
    IF zipcode.isnull THEN 0
    ELSE BagCardinality(Where(tbl, {r \in DOMAIN tbl : r.zip = zipcode.v}))

\* One iteration of the loop of create_tmc_locations_table: every row of the
\* file is inserted as it is
LoadTmc(file, tbl) ==
    LET zipcode == extract_zipcode(file.name)
        loaded == tbl (+) BagOfSeq(file.rows)
    IN  [tmc_locations |-> loaded,
         report |-> Report(file.name, "loaded", TmcRowCount(loaded, zipcode))]

\* The files of the model
ReadingsName == <<"R", "e", "a", "d", "i", "n", "g", "s">>
TmcName == <<"T", "M", "C", "_", "I", "d", "e", "n", "t", "i", "f", "i", "c",
             "a", "t", "i", "o", "n">>
Csv == <<".", "c", "s", "v">>
Zip30060 == <<"3", "0", "0", "6", "0">>

ReadingsColumns ==
    {"tmc_code", "measurement_tstamp", "speed", "reference_speed",
     "travel_time_seconds"}

\* Readings-30060.csv: ISO timestamps, Monday 10:00 and Sunday 10:00
ReadingsIso ==
    [name |-> ReadingsName \o <<"-">> \o Zip30060 \o Csv,
     column_names |-> ReadingsColumns \cup {"confidence"},
     rows |-> <<ReadingsRow("A", Iso(10), 1000, 4500, 2),
                ReadingsRow("B", Iso(154), 2000, 5500, 4)>>]

\* Readings-30062.csv: US timestamps, Friday 17:00, Monday 10:00 and Friday
\* 10:00, and a confidence_score column
ReadingsUs ==
    [name |-> ReadingsName \o <<"-", "3", "0", "0", "6", "2">> \o Csv,
     column_names |-> ReadingsColumns \cup {"confidence_score"},
     rows |-> <<ReadingsRowScore("A", Us(113), 2000, 5500, 4),
                ReadingsRowScore("B", Us(10), 1000, 4500, 2),
                ReadingsRowScore("B", Us(106), 2000, 5500, 4)>>]

\* Readings-30064.csv: US timestamps, the second one unparsable
ReadingsUsBadRow ==
    [name |-> ReadingsName \o <<"-", "3", "0", "0", "6", "4">> \o Csv,
     column_names |-> ReadingsColumns \cup {"confidence"},
     rows |-> <<ReadingsRow("A", Us(10), 1000, 4500, 2),
                ReadingsRow("A", Unparsable(0), 2000, 5500, 4),
                ReadingsRow("B", Us(10), 2000, 5500, 4)>>]

\* Readings.30066.csv: ISO timestamps, the second one unparsable
ReadingsIsoBadRow ==
    [name |-> ReadingsName \o <<".", "3", "0", "0", "6", "6">> \o Csv,
     column_names |-> ReadingsColumns \cup {"confidence"},
     rows |-> <<ReadingsRow("A", Iso(10), 1000, 4500, 2),
                ReadingsRow("B", Unparsable(2), 2000, 5500, 4)>>]

\* Readings_North.csv: well-formed rows under a name without a region code
ReadingsNoCode ==
    [name |-> ReadingsName \o <<"_", "N", "o", "r", "t", "h">> \o Csv,
     column_names |-> ReadingsColumns \cup {"confidence"},
     rows |-> <<ReadingsRow("A", Iso(10), 2000, 5500, 4)>>]

\* Readings-30068.csv: a header and no row
ReadingsEmpty ==
    [name |-> ReadingsName \o <<"-", "3", "0", "0", "6", "8">> \o Csv,
     column_names |-> ReadingsColumns \cup {"confidence"},
     rows |-> <<>>]

\* Readings.30060.csv: the region code of Readings-30060.csv again, Saturday
\* 10:00
ReadingsSameCode ==
    [name |-> ReadingsName \o <<".">> \o Zip30060 \o Csv,
     column_names |-> ReadingsColumns \cup {"confidence"},
     rows |-> <<ReadingsRow("A", Iso(130), 2000, 5500, 4)>>]

ReadingsFiles ==
    {ReadingsIso, ReadingsUs, ReadingsUsBadRow, ReadingsIsoBadRow,
     ReadingsNoCode, ReadingsEmpty, ReadingsSameCode}

SegmentA ==
    LocationRow("A", "I-75", "NORTHBOUND", Zip30060,
                Val(3395), Val(0 - 8455), Val(3396), Val(0 - 8456))
SegmentB ==
    LocationRow("B", "US-41", "SOUTHBOUND", Zip30060,
                Val(3390), Val(0 - 8450), Val(3391), Val(0 - 8451))

\* TMC_Identification-30060.csv: both segments, four coordinates each
TmcBoth ==
    [name |-> TmcName \o <<"-">> \o Zip30060 \o Csv,
     rows |-> <<SegmentA, SegmentB>>]

\* TMC_Identification-30062.csv: segment A again, segment B absent
TmcOnlyA ==
    [name |-> TmcName \o <<"-", "3", "0", "0", "6", "2">> \o Csv,
     rows |-> <<SegmentA>>]

\* TMC_Identification-30064.csv: a start coordinate missing on each segment
TmcNullStart ==
    [name |-> TmcName \o <<"-", "3", "0", "0", "6", "4">> \o Csv,
     rows |-> <<[SegmentA EXCEPT !.start_latitude = Null],
                [SegmentB EXCEPT !.start_longitude = Null]>>]

\* TMC_Identification-30066.csv: an end coordinate missing on each segment
TmcNullEnd ==
    [name |-> TmcName \o <<"-", "3", "0", "0", "6", "6">> \o Csv,
     rows |-> <<[SegmentA EXCEPT !.end_latitude = Null],
                [SegmentB EXCEPT !.end_longitude = Null]>>]

TmcFiles == {TmcBoth, TmcOnlyA, TmcNullStart, TmcNullEnd}

\* The lists a directory listing can give: up to MaxFiles different files
Lists(S) ==
    {fs \in UNION {[1..n -> S] : n \in 0..MaxFiles} :
        \A i \in DOMAIN fs : \A k \in DOMAIN fs : i # k => fs[i] # fs[k]}

\* The inputs of main(): any list of readings files with the full geometry
\* file, or the two well-formed readings files with any list of geometry files
IngestInputs ==
    (Lists(ReadingsFiles) \X {<<TmcBoth>>})
        \cup ({<<ReadingsIso, ReadingsUs>>} \X Lists(TmcFiles))

\* main() before discover_csv_files: a new, empty database
InitIngest ==
    /\ traffic = EmptyBag
    /\ tmc_locations = EmptyBag
    /\ pc = "main"
    /\ scenario = NoScenario
    /\ historical = EmptyBag
    /\ predictions = EmptyPredictions
    /\ registered = {}
    /\ con_ops = <<>>
    /\ exported = NoExport
    /\ err = NoError
    /\ \E input \in IngestInputs :
          /\ readings_files = input[1]
          /\ tmc_files = input[2]
    /\ file_i = 0
    /\ log = <<>>
    /\ inserted = <<>>
    /\ indexes = {}
    /\ sessions = NoSessions
    /\ temp_historical = NotRegistered
    /\ db_exists = TRUE
    /\ open_connections = 0

serve_vars == <<scenario, historical, predictions, registered, con_ops,
                exported, err>>

\* main(): return when no file of either kind was found, else connect and
\* enter create_traffic_table
Main ==
    /\ pc = "main"
    /\ IF readings_files = <<>> \/ tmc_files = <<>>
       THEN pc' = "no_files" /\ file_i' = file_i
       ELSE pc' = "create_traffic_table" /\ file_i' = 1
    /\ UNCHANGED <<traffic, tmc_locations, serve_vars, readings_files,
                   tmc_files, log, indexes, inserted, session_vars, api_vars>>

\* One iteration of for i, file_path in enumerate(readings_files, 1)
LoadReadingsFile ==
    /\ pc = "create_traffic_table"
    /\ file_i <= Len(readings_files)
    /\ \E o \in LoadReadings(readings_files[file_i], traffic) :
          /\ traffic' = o.traffic
          /\ log' = Append(log, o.report)
          /\ inserted' = Append(inserted, BagCardinality(o.traffic)
                                             - BagCardinality(traffic))
    /\ file_i' = file_i + 1
    /\ UNCHANGED <<tmc_locations, pc, serve_vars, readings_files, tmc_files,
                   indexes, session_vars, api_vars>>

\* After the loop: the four indexes and the total-row report
CreateTrafficIndexes ==
    /\ pc = "create_traffic_table"
    /\ file_i > Len(readings_files)
    /\ indexes' = indexes \cup TrafficIndexes
    /\ log' = Append(log, Report(<<>>, "total_traffic", BagCardinality(traffic)))
    /\ inserted' = Append(inserted, 0)
    /\ pc' = "create_tmc_locations_table"
    /\ file_i' = 1
    /\ UNCHANGED <<traffic, tmc_locations, serve_vars, readings_files,
                   tmc_files, session_vars, api_vars>>

\* One iteration of for i, file_path in enumerate(tmc_files, 1)
LoadTmcFile ==
    /\ pc = "create_tmc_locations_table"
    /\ file_i <= Len(tmc_files)
    /\ tmc_locations' = LoadTmc(tmc_files[file_i], tmc_locations).tmc_locations
    /\ log' = Append(log, LoadTmc(tmc_files[file_i], tmc_locations).report)
    /\ inserted' = Append(inserted, BagCardinality(tmc_locations')
                                       - BagCardinality(tmc_locations))
    /\ file_i' = file_i + 1
    /\ UNCHANGED <<traffic, pc, serve_vars, readings_files, tmc_files, indexes,
                   session_vars, api_vars>>

\* After the loop: the index and the total-row report; main() closes the
\* connection and the store is ready to serve requests
CreateTmcIndex ==
    /\ pc = "create_tmc_locations_table"
    /\ file_i > Len(tmc_files)
    /\ indexes' = indexes \cup TmcIndexes
    /\ log' = Append(log, Report(<<>>, "total_tmc", BagCardinality(tmc_locations)))
    /\ inserted' = Append(inserted, 0)
    /\ pc' = "idle"
    /\ file_i' = 0
    /\ UNCHANGED <<traffic, tmc_locations, serve_vars, readings_files,
                   tmc_files, session_vars, api_vars>>

NextIngest ==
    \/ Main
    \/ LoadReadingsFile
    \/ CreateTrafficIndexes
    \/ LoadTmcFile
    \/ CreateTmcIndex
    \/ \E d \in DaysOfWeek, h \in Hours, t \in DayTypes : MatchHistoricalData(d, h, t)
    \/ CalculatePredictions
    \/ \E f \in Formats : ExportPredictions(f)
    \/ Finish

\* The store is built by main(), then serves requests
SpecIngest == InitIngest /\ [][NextIngest]_vars

Built == pc \notin {"main", "no_files", "create_traffic_table",
                    "create_tmc_locations_table"}

----------------------------------------------------------------------------
(* Properties of the predictions over stores built by ingestion *)

\* The number of prediction rows of segment tmc
PredictionCount(tmc) ==
    Cardinality({i \in 1..Len(predictions.rows) :
                    predictions.rows[i].tmc_code = tmc})

\* C11: over every store built by ingestion, the predictions hold exactly one
\* row for each segment with at least one matched observation and a geometry
\* row of four coordinates, and none for any other segment: no tmc_code
\* occurs in two rows.
C11_OneRowPerSegment ==
    (Built /\ Predicted) =>
        \A tmc \in Tmcs :
            PredictionCount(tmc) =
                IF MatchedCount(tmc) > 0 /\ Resolvable(tmc) THEN 1 ELSE 0

\* The segment identifiers of the exported value
ExportedTmcs ==
    IF exported.kind = "dataframe"
    THEN {exported.value.rows[i].tmc_code : i \in 1..Len(exported.value.rows)}
    ELSE IF exported.kind = "csv"
    THEN {exported.value.lines[i][1] : i \in 1..Len(exported.value.lines)}
    ELSE IF exported.kind = "geojson"
    THEN {exported.value.features[i].properties.tmc_code :
             i \in 1..Len(exported.value.features)}
    ELSE {}

\* C12: a segment with matched observations but without a tmc_locations row
\* of four coordinates (no row at all, or rows with a null start_latitude,
\* start_longitude, end_latitude or end_longitude) appears neither in the
\* predictions nor in any export of them, and no prediction row carries a null
\* coordinate; every segment with matched observations and a four-coordinate
\* row does appear, in the predictions and in every export.
C12_GeometryFilter ==
    (Built /\ Predicted) =>
        /\ \A p \in PredictionRows :
              /\ ~p.start_latitude.isnull /\ ~p.start_longitude.isnull
              /\ ~p.end_latitude.isnull /\ ~p.end_longitude.isnull
              /\ \E l \in DOMAIN tmc_locations :
                    /\ l.tmc = p.tmc_code
                    /\ l.start_latitude = p.start_latitude
                    /\ l.start_longitude = p.start_longitude
                    /\ l.end_latitude = p.end_latitude
                    /\ l.end_longitude = p.end_longitude
        /\ \A tmc \in Tmcs :
              MatchedCount(tmc) > 0 =>
                  /\ (PredictionCount(tmc) > 0) <=> Resolvable(tmc)
                  /\ pc = "exported" => ((tmc \in ExportedTmcs) <=> Resolvable(tmc))

\* An export that holds one matched segment and leaves out another, whose
\* only geometry row lacks a coordinate
C12_Witness ==
    /\ pc = "exported"
    /\ \E tmc \in Tmcs :
          /\ MatchedCount(tmc) > 0
          /\ \E l \in DOMAIN tmc_locations : l.tmc = tmc
          /\ ~Resolvable(tmc)
          /\ tmc \notin ExportedTmcs
    /\ ExportedTmcs # {}

----------------------------------------------------------------------------
(* Properties of ingestion *)

\* date.weekday() of the dashboard and the day_of_week of the API: Monday = 0
\* ... Sunday = 6
weekday(ts) == (ts \div 24) % 7

\* C17: every stored row has day_of_week = the Monday=0 weekday of its
\* timestamp, hour = the timestamp's hour and date = its calendar date; so a
\* normal request for day_of_week d matches only observations made on weekday
\* d, and a holiday request only observations of Friday from 17h, Saturday
\* and Sunday.
C17_MondayIsZero ==
    /\ \A r \in DOMAIN traffic :
          /\ r.day_of_week = weekday(r.measurement_tstamp)
          /\ r.hour = r.measurement_tstamp % 24
          /\ r.date = r.measurement_tstamp \div 24
    /\ (Built /\ scenario.day_type = "normal") =>
          \A x \in DOMAIN historical :
              weekday(x.measurement_tstamp) = scenario.day_of_week
    /\ (Built /\ scenario.day_type = "holiday") =>
          \A x \in DOMAIN historical :
              \/ weekday(x.measurement_tstamp) \in {5, 6}
              \/ /\ weekday(x.measurement_tstamp) = 4
                 /\ x.measurement_tstamp % 24 >= 17

\* File k of readings_files has been through its iteration of the loop
ReadingsDone(k) ==
    /\ k \in 1..Len(readings_files)
    /\ \/ pc = "create_traffic_table" /\ k < file_i
       \/ pc \notin {"main", "no_files", "create_traffic_table"}

\* The number of stored rows carrying the region code of the given name
StoredFrom(name) ==
    BagCardinality(Where(traffic,
        {r \in DOMAIN traffic : r.zipcode = FormatZip(extract_zipcode(name))}))

\* C19: a readings file whose name yields no region code is skipped: its
\* report is not a load, no row of it is in the traffic table, and the files
\* after it in the list still go through the loop.
C19_NoCodeFileSkipped ==
    \A k \in 1..Len(readings_files) :
        (ReadingsDone(k) /\ extract_zipcode(readings_files[k].name).isnull) =>
            /\ log[k].file = readings_files[k].name
            /\ log[k].outcome # "loaded"
            /\ StoredFrom(readings_files[k].name) = 0
            /\ Built => \A j \in 1..Len(readings_files) :
                            log[j].file = readings_files[j].name

\* The row parses under the format chosen from the file's first timestamp
Parsable(file, i) ==
    IF timestamp_expr(file.rows[1].measurement_tstamp) = "CAST"
    THEN file.rows[i].measurement_tstamp.fmt = "iso"
    ELSE file.rows[i].measurement_tstamp.fmt = "us"

\* C20: when some rows of a readings file do not parse under the format
\* chosen for the file, the load of the file is not aborted: exactly its
\* parsable rows are inserted into the traffic table.
C20_UnparsableRowDropped ==
    \A k \in 1..Len(readings_files) :
        LET file == readings_files[k]
        IN  (/\ ReadingsDone(k)
             /\ ~extract_zipcode(file.name).isnull
             /\ \E i \in 1..Len(file.rows) : ~Parsable(file, i)
             /\ \E i \in 1..Len(file.rows) : Parsable(file, i)) =>
                /\ log[k].outcome = "loaded"
                /\ StoredFrom(file.name)
                      = Cardinality({i \in 1..Len(file.rows) : Parsable(file, i)})

----------------------------------------------------------------------------
(* streamlit_app.py: dashboard sessions.  get_database_connection is cached *)
(* with st.cache_resource, so every session calls get_predictions on the    *)
(* same connection; each call on the connection is one step.                *)

Sessions == {1, 2}

IdleSession ==
    [pc |-> "idle", scenario |-> NoScenario, historical |-> EmptyBag,
     predictions |-> EmptyPredictions, err |-> NoError]

\* The stores the sessions are served from: observations of both segments on
\* Monday and Friday 10:00, as create_traffic_table stores them
SessionStores ==
    {SetToBag({TrafficRow("A", 10, 1000, 4500, 2, Zip30060),
               TrafficRow("B", 10, 2000, 5500, 4, Zip30060),
               TrafficRow("B", 106, 1000, 4500, 2, Zip30060)}),
     SetToBag({TrafficRow("A", 10, 2000, 5500, 4, Zip30060),
               TrafficRow("A", 106, 1000, 4500, 2, Zip30060)})}

\* Catalog Error: Table with name temp_historical does not exist
CatalogError ==
    [type |-> "CatalogException", message |-> <<"temp_historical">>]

InitSessions ==
    /\ traffic \in SessionStores
    /\ tmc_locations = Catalog
    /\ pc = "serving"
    /\ scenario = NoScenario
    /\ historical = EmptyBag
    /\ predictions = EmptyPredictions
    /\ registered = {}
    /\ con_ops = <<>>
    /\ exported = NoExport
    /\ err = NoError
    /\ readings_files = <<>>
    /\ tmc_files = <<>>
    /\ file_i = 0
    /\ log = <<>>
    /\ inserted = <<>>
    /\ indexes = TrafficIndexes \cup TmcIndexes
    /\ sessions = [s \in Sessions |-> IdleSession]
    /\ temp_historical = NotRegistered
    /\ db_exists = TRUE
    /\ open_connections = 0

request_vars == <<pc, scenario, historical, predictions, con_ops, exported, err>>

\* historical = pe.match_historical_data(day_of_week, hour, day_type, _con)
SessionMatch(s, day_of_week, hour, day_type) ==
    /\ sessions[s].pc = "idle"
    /\ sessions' = [sessions EXCEPT
                      ![s].pc = "matched",
                      ![s].scenario = [day_of_week |-> day_of_week,
                                       hour |-> hour, day_type |-> day_type],
                      ![s].historical =
                          match_historical_data(day_of_week, hour, day_type,
                                                traffic)]
    /\ UNCHANGED <<traffic, tmc_locations, request_vars, registered,
                   ingest_vars, temp_historical,
                   api_vars>>

\* calculate_predictions up to con.register('temp_historical', ...): the empty
\* input returns at once; register creates the object or replaces the one of
\* the same name
SessionRegister(s) ==
    /\ sessions[s].pc = "matched"
    /\ IF calculate_predictions_empty(sessions[s].historical)
       THEN /\ sessions' = [sessions EXCEPT ![s].pc = "done",
                                            ![s].predictions = EmptyPredictions]
            /\ UNCHANGED <<temp_historical, registered>>
       ELSE /\ sessions' = [sessions EXCEPT ![s].pc = "registered"]
            /\ temp_historical' = [present |-> TRUE,
                                   data |-> sessions[s].historical]
            /\ registered' = registered \cup {"temp_historical"}
    /\ UNCHANGED <<traffic, tmc_locations, request_vars, ingest_vars, api_vars>>

\* predictions = con.execute(query).df(): the query reads whatever is
\* registered as temp_historical at that moment, and raises when nothing is
SessionQuery(s) ==
    /\ sessions[s].pc = "registered"
    /\ IF temp_historical.present
       THEN \E rows \in QueryResults(temp_historical.data, tmc_locations) :
               sessions' = [sessions EXCEPT
                              ![s].pc = "queried",
                              ![s].predictions =
                                  [columns |-> PredictionColumns, rows |-> rows]]
       ELSE sessions' = [sessions EXCEPT ![s].pc = "failed",
                                         ![s].err = CatalogError]
    /\ UNCHANGED <<traffic, tmc_locations, request_vars, registered,
                   ingest_vars, temp_historical,
                   api_vars>>

\* con.unregister('temp_historical'); return predictions
SessionUnregister(s) ==
    /\ sessions[s].pc = "queried"
    /\ sessions' = [sessions EXCEPT ![s].pc = "done"]
    /\ temp_historical' = NotRegistered
    /\ registered' = registered \ {"temp_historical"}
    /\ UNCHANGED <<traffic, tmc_locations, request_vars, ingest_vars, api_vars>>

NextSessions ==
    \E s \in Sessions :
        \/ \E d \in DaysOfWeek, h \in Hours, t \in DayTypes : SessionMatch(s, d, h, t)
        \/ SessionRegister(s)
        \/ SessionQuery(s)
        \/ SessionUnregister(s)

\* Two sessions interleave their calls on the shared connection
SpecSessions == InitSessions /\ [][NextSessions]_vars

\* What the request of session s returns when it runs alone
AloneResults(s) ==
    IF calculate_predictions_empty(sessions[s].historical) THEN {<<>>}
    ELSE QueryResults(sessions[s].historical, tmc_locations)

\* C18: under every interleaving of the sessions' match, register, query and
\* unregister steps on the shared connection, no session fails and the
\* predictions of each session are those its request returns when run alone.
C18_SessionsIndependent ==
    \A s \in DOMAIN sessions :
        /\ sessions[s].pc # "failed"
        /\ sessions[s].pc \in {"queried", "done"} =>
              sessions[s].predictions.rows \in AloneResults(s)

----------------------------------------------------------------------------
(* Properties of the ingestion loops *)

\* Every row of bag B is in bag C at least as often
Remain(B, C) ==
    \A r \in DOMAIN B : r \in DOMAIN C /\ B[r] <= C[r]

\* C21: file loads are isolated.  Each iteration of the readings loop reports
\* on its file and passes to the next one, whatever its outcome; it keeps every
\* row loaded from the files before, and when the load of the file raises, the
\* file contributes no row.  When the loop is left every file has its report,
\* and the indexes are created and the total row count is reported.  The
\* geometry loop keeps the rows of the files before in the same way.
C21_FileLoadsIsolated ==
    [][/\ LoadReadingsFile =>
             /\ file_i' = file_i + 1
             /\ pc' = "create_traffic_table"
             /\ log' = Append(log, log'[file_i])
             /\ log'[file_i].file = readings_files[file_i].name
             /\ Remain(traffic, traffic')
             /\ log'[file_i].outcome = "error" => traffic' = traffic
       /\ CreateTrafficIndexes =>
             /\ \A k \in 1..Len(readings_files) :
                   log[k].file = readings_files[k].name
             /\ traffic' = traffic
             /\ TrafficIndexes \subseteq indexes'
             /\ log'[Len(log')] = Report(<<>>, "total_traffic",
                                         BagCardinality(traffic))
       /\ LoadTmcFile =>
             /\ file_i' = file_i + 1
             /\ Remain(tmc_locations, tmc_locations')
             /\ traffic' = traffic
       /\ CreateTmcIndex =>
             /\ TmcIndexes \subseteq indexes'
             /\ log'[Len(log')] = Report(<<>>, "total_tmc",
                                         BagCardinality(tmc_locations))]_vars

\* A store built from three files of which the second raised: the rows of the
\* first and of the third are in the table, the indexes exist
C21_Witness ==
    /\ Built
    /\ Len(readings_files) = 3
    /\ log[1].outcome = "loaded" /\ inserted[1] > 0
    /\ log[2].outcome = "error" /\ inserted[2] = 0
    /\ log[3].outcome = "loaded" /\ inserted[3] > 0
    /\ BagCardinality(traffic) = inserted[1] + inserted[3]
    /\ TrafficIndexes \subseteq indexes
    /\ log[4].outcome = "total_traffic"

\* C22: the row count reported after the load of a file, of either loop, is
\* the number of rows inserted from that file.
C22_ReportedRowCount ==
    \A k \in 1..Len(log) :
        log[k].outcome = "loaded" => log[k].row_count = inserted[k]

\* The timestamps of the file are all written in format fmt
AllWritten(file, fmt) ==
    /\ file.rows # <<>>
    /\ \A i \in 1..Len(file.rows) : file.rows[i].measurement_tstamp.fmt = fmt

\* C24: the format is chosen once per file from its sample timestamp.  A file
\* whose sample has two or more '-' is read as ISO and a file whose sample has
\* fewer is read as M/D/YYYY H:MM, every row of it: a file written in one
\* format throughout is loaded whole, and a loaded file contributed exactly
\* its rows written in the chosen format.  hour, day_of_week and date of every
\* stored row derive from the stored timestamp: hour and date are its hour
\* and day, and day_of_week follows the date (rows a number of days apart
\* differ by that number modulo 7).
C24_FormatChosenOncePerFile ==
    /\ \A k \in 1..Len(readings_files) :
          LET file == readings_files[k]
          IN  ReadingsDone(k) =>
                /\ (AllWritten(file, "iso") \/ AllWritten(file, "us")) =>
                      /\ timestamp_expr(file.rows[1].measurement_tstamp)
                            = IF AllWritten(file, "iso") THEN "CAST" ELSE "strptime"
                      /\ log[k].outcome = "loaded"
                      /\ inserted[k] = Len(file.rows)
                /\ log[k].outcome = "loaded" =>
                      inserted[k] = Cardinality({i \in 1..Len(file.rows) :
                                                    Parsable(file, i)})
    /\ \A r \in DOMAIN traffic :
          /\ r.hour = r.measurement_tstamp % 24
          /\ r.date = r.measurement_tstamp \div 24
          /\ r.day_of_week \in 0..6
          /\ \A q \in DOMAIN traffic :
                (r.day_of_week - q.day_of_week) % 7 = (r.date - q.date) % 7

\* A store built from an ISO file and a US file, both loaded whole, with rows
\* of different days
C24_Witness ==
    /\ Built
    /\ \E i \in 1..Len(readings_files) : \E k \in 1..Len(readings_files) :
          /\ AllWritten(readings_files[i], "iso")
          /\ AllWritten(readings_files[k], "us")
          /\ inserted[i] = Len(readings_files[i].rows)
          /\ inserted[k] = Len(readings_files[k].rows)
    /\ \E r \in DOMAIN traffic : \E q \in DOMAIN traffic : r.date # q.date

----------------------------------------------------------------------------
(* The HTTP service: GET /api/predict (api.py) *)

\* The handler stops accepting requests when this many connections are open
MaxOpen == 2

\* DB_PATH = os.environ.get("DB_PATH", "marietta_traffic.db")
DB_PATH == "marietta_traffic.db"

\* raise FileNotFoundError(f"Database file not found: {DB_PATH}")
FileNotFound ==
    [type |-> "FileNotFoundError",
     message |-> <<"Database file not found: ", DB_PATH>>]

\* raise HTTPException(status_code=500, detail=...) of the two except clauses
Http500(e) ==
    [type |-> "HTTPException",
     message |-> IF e.type = "FileNotFoundError"
                 THEN <<"Database not found: ">> \o e.message
                 ELSE <<"Prediction error: ">> \o e.message]

\* The stores the service is run on.  In the first, the two Monday 10:00
\* readings of segment A have confidences 18.0 and -16.0 (confidences are not
\* clamped on the way in), whose squared deviations do not sum to a finite
\* DOUBLE, halved or not
StoreFarApart ==
    SetToBag({TrafficRow("A", 10, 1000, 4500, 18000, Zip30060),
              TrafficRow("A", 10, 2000, 4500, 0 - 16000, Zip30060),
              TrafficRow("B", 10, 2000, 5500, 4, Zip30060),
              TrafficRow("B", 89, 1000, 5500, 2, Zip30060)})

StoreOrdinary ==
    SetToBag({TrafficRow("A", 10, 1000, 4500, 2, Zip30060),
              TrafficRow("B", 10, 2000, 5500, 4, Zip30060),
              TrafficRow("A", 89, 2000, 4500, 4, Zip30060)})

ApiStores == {StoreFarApart, StoreOrdinary, EmptyBag}

InitApi ==
    /\ traffic \in ApiStores
    /\ tmc_locations = Catalog
    /\ pc = "idle"
    /\ scenario = NoScenario
    /\ historical = EmptyBag
    /\ predictions = EmptyPredictions
    /\ registered = {}
    /\ con_ops = <<>>
    /\ exported = NoExport
    /\ err = NoError
    /\ readings_files = <<>>
    /\ tmc_files = <<>>
    /\ file_i = 0
    /\ log = <<>>
    /\ inserted = <<>>
    /\ indexes = TrafficIndexes \cup TmcIndexes
    /\ sessions = NoSessions
    /\ temp_historical = NotRegistered
    /\ db_exists \in BOOLEAN
    /\ open_connections = 0

\* con = get_db_connection(): a new read-only connection, or FileNotFoundError
\* before any connection is made
GetDbConnection(day_of_week, hour, day_type) ==
    /\ pc = "idle"
    /\ open_connections < MaxOpen
    /\ scenario' = [day_of_week |-> day_of_week, hour |-> hour,
                    day_type |-> day_type]
    /\ IF db_exists
       THEN /\ open_connections' = open_connections + 1
            /\ registered' = {}
            /\ err' = err
            /\ pc' = "connected"
       ELSE /\ open_connections' = open_connections
            /\ registered' = registered
            /\ err' = FileNotFound
            /\ pc' = "raised"
    /\ UNCHANGED <<traffic, tmc_locations, historical, predictions, con_ops,
                   exported, db_exists, ingest_vars, session_vars>>

\* historical = pe.match_historical_data(day_of_week, hour, day_type, con)
ApiMatchHistoricalData ==
    /\ pc = "connected"
    /\ historical' = match_historical_data(scenario.day_of_week, scenario.hour,
                                           scenario.day_type, traffic)
    /\ pc' = "matched"
    /\ UNCHANGED <<traffic, tmc_locations, scenario, predictions, registered,
                   con_ops, exported, err, ingest_vars, session_vars, api_vars>>

\* response = {**geojson, "metadata": {...}}; con.close(); return response
Respond ==
    /\ pc = "exported"
    /\ exported' =
          [kind  |-> "response",
           value |-> [geojson  |-> exported.value,
                      metadata |-> [day_of_week |-> scenario.day_of_week,
                                    hour |-> scenario.hour,
                                    day_type |-> scenario.day_type,
                                    segments_count |-> Len(predictions.rows),
                                    historical_records_used |->
                                        BagCardinality(historical)]]]
    /\ open_connections' = open_connections - 1
    /\ registered' = {}
    /\ pc' = "responded"
    /\ UNCHANGED <<traffic, tmc_locations, scenario, historical, predictions,
                   con_ops, err, db_exists, ingest_vars, session_vars>>

\* except FileNotFoundError / except Exception: the handler answers HTTP 500;
\* neither clause closes the connection
Except ==
    /\ pc = "raised"
    /\ err' = Http500(err)
    /\ pc' = "http500"
    /\ UNCHANGED <<traffic, tmc_locations, scenario, historical, predictions,
                   registered, con_ops, exported, ingest_vars, session_vars,
                   api_vars>>

\* The handler has finished; the service waits for the next request
Finished ==
    /\ pc \in {"responded", "http500"}
    /\ pc' = "idle"
    /\ scenario' = NoScenario
    /\ historical' = EmptyBag
    /\ predictions' = EmptyPredictions
    /\ con_ops' = <<>>
    /\ exported' = NoExport
    /\ err' = NoError
    /\ UNCHANGED <<traffic, tmc_locations, registered, ingest_vars,
                   session_vars, api_vars>>

NextApi ==
    \/ \E d \in DaysOfWeek, h \in Hours, t \in DayTypes : GetDbConnection(d, h, t)
    \/ ApiMatchHistoricalData
    \/ CalculatePredictions
    \/ ExportPredictions("geojson")
    \/ Respond
    \/ Except
    \/ Finished

SpecApi == InitApi /\ [][NextApi]_vars

----------------------------------------------------------------------------
(* The special_event weights in the aggregation *)

\* The rows special_event unions, with the confidences as they are stored
UnscaledUnion ==
    Select(Where(traffic, NormalRows(traffic, scenario.day_of_week,
                                     scenario.hour)), AsStored(traffic))
    (+) Select(Where(traffic, HolidayRows(traffic, scenario.hour)),
               AsStored(traffic))

====
